---------------------------- MODULE Spec2Model ----------------------------
(***************************************************************************)
(* Model of the Google Gemini adapter, src/src/llm_models/google.rs:       *)
(* GoogleModels and its implementation of LLMModel (as_str,                *)
(* default_max_tokens, get_endpoint, get_body, call_api, get_data,         *)
(* get_rate_limit).                                                        *)
(*                                                                         *)
(* Text is a sequence of one-character strings, so that prefix tests,      *)
(* slicing, serialisation and parsing are computed character by character. *)
(* A network read (Bytes) is such a sequence too; the element InvalidByte  *)
(* stands for a byte that is no valid UTF-8.                               *)
(***************************************************************************)
EXTENDS Integers, Sequences, FiniteSets, TLC

VARIABLES
    self,       \* the GoogleModels variant the methods are called on
    debug,      \* call_api's debug argument
    attempt,    \* number of call_api invocations started so far
    call,       \* the running call_api invocation (its locals and its result)
    twin,       \* the same invocation, same responses, debug flag flipped
    wire,       \* what the vendor and the network did during this invocation
    prevLost,   \* the previous invocation lost its stream holding text
    data,       \* result of get_data on the last Ok text, or None
    req,        \* the request envelope handed to get_body
    alt,        \* a max_tokens / identity variation of the same request
    body,       \* get_body's result for (self, req), or None
    bodyAlt,    \* get_body's result for the variation alt, or None
    rate        \* get_rate_limit's result, or None

vars == <<self, debug, attempt, call, twin, wire, prevLost, data,
          req, alt, body, bodyAlt, rate>>

callVars == <<debug, attempt, call, twin, wire, prevLost, data>>
pureVars == <<req, alt, body, bodyAlt, rate>>

None == [kind |-> "None"]

-----------------------------------------------------------------------------
(* Bounds of the model *)

\* candidates per streamed response object
MaxCands == 2
\* network reads per call_api invocation
MaxChunks == 2
\* call_api invocations (the caller may call again after a failure)
MaxAttempts == 2

-----------------------------------------------------------------------------
(* Text helpers *)

RECURSIVE Flatten(_)
\* concatenation of a sequence of texts, in order
Flatten(ss) == IF ss = <<>> THEN <<>> ELSE Head(ss) \o Flatten(Tail(ss))

\* str::starts_with
StartsWith(s, p) ==
    /\ Len(p) <= Len(s)
    /\ \A k \in 1..Len(p) : s[k] = p[k]

\* &s[n..] : the text from byte offset n on
SliceFrom(s, n) == SubSeq(s, n + 1, Len(s))

Q == "\""
DataPrefix == <<"d", "a", "t", "a", ":", " ">>
KeyCandidates == <<"c", "a", "n", "d", "i", "d", "a", "t", "e", "s">>
KeyContent == <<"c", "o", "n", "t", "e", "n", "t">>
KeyRole == <<"r", "o", "l", "e">>
KeyParts == <<"p", "a", "r", "t", "s">>
KeyText == <<"t", "e", "x", "t">>
RoleModel == <<"m", "o", "d", "e", "l">>
RoleUser == <<"u", "s", "e", "r">>
InvalidByte == "xFF"

-----------------------------------------------------------------------------
(* GoogleGeminiProApiResp as call_api uses it:                             *)
(*   resp.candidates : sequence of candidates                               *)
(*   candidate.content.role : Option<String>, <<>> is None, <<r>> is Some(r)*)
(*   candidate.content.parts : sequence of parts, part.text : text          *)

Part(t) == [text |-> t]
Candidate(role, parts) == [content |-> [role |-> role, parts |-> parts]]
Resp(cands) == [candidates |-> cands]

-----------------------------------------------------------------------------
(* String::from_utf8(chunk.to_vec()) *)

FromUtf8(bytes) ==
    IF \E k \in 1..Len(bytes) : bytes[k] = InvalidByte
    THEN [ok |-> FALSE, val |-> <<>>]
    ELSE [ok |-> TRUE, val |-> bytes]

-----------------------------------------------------------------------------
(* serde_json::from_str::<GoogleGeminiProApiResp>.  A position is an index  *)
(* into the text; position 0 is a parse error.  Whitespace is skipped       *)
(* before every token.  Keys are read in the order content, role, parts,    *)
(* text (the order the vendor writes them); string escapes are outside the  *)
(* modelled alphabet and are rejected.  Every intermediate result is bound  *)
(* once (Only) so that a parse is linear in the length of the text.         *)

WhiteSpace == {" ", "\n", "\r", "\t"}

Fail == [pos |-> 0, val |-> <<>>]

\* the element of a one-element set.  Only({e(x) : x \in {v}}) is "let x be
\* the value of v in e(x)", with v computed once
Only(S) == CHOOSE x \in S : TRUE

RECURSIVE SkipWs(_, _)
SkipWs(s, i) ==
    IF i <= Len(s) /\ s[i] \in WhiteSpace THEN SkipWs(s, i + 1) ELSE i

\* the literal lit at position at (after whitespace): the position after it
Lit(s, at, lit) ==
    Only({ IF j = 0 THEN 0
           ELSE IF /\ j + Len(lit) - 1 <= Len(s)
                   /\ \A k \in 1..Len(lit) : s[j + k - 1] = lit[k]
           THEN j + Len(lit)
           ELSE 0 :
        j \in {Only({IF i = 0 THEN 0 ELSE SkipWs(s, i) : i \in {at}})} })

RECURSIVE StrEnd(_, _)
\* the position of the quote closing a string whose content starts at k
StrEnd(s, k) ==
    IF k > Len(s) THEN 0
    ELSE IF s[k] = Q THEN k
    ELSE IF s[k] = "\\" THEN 0
    ELSE StrEnd(s, k + 1)

\* a JSON string at position at
ParseStr(s, at) ==
    Only({ Only({ IF e = 0 THEN Fail
                  ELSE [pos |-> e + 1, val |-> SubSeq(s, j, e - 1)] :
               e \in {IF j = 0 THEN 0 ELSE StrEnd(s, j)} }) :
        j \in {Lit(s, at, <<Q>>)} })

\* the object key "key" followed by a colon
ParseKey(s, at, key) ==
    Only({ IF r.pos # 0 /\ r.val = key THEN Lit(s, r.pos, <<":">>) ELSE 0 :
        r \in {ParseStr(s, at)} })

\* {"text": <string>}
ParsePart(s, at) ==
    Only({ Only({ IF e = 0 THEN Fail ELSE [pos |-> e, val |-> Part(r.val)] :
               e \in {Lit(s, r.pos, <<"}">>)} }) :
        r \in {ParseStr(s, ParseKey(s, Lit(s, at, <<"{">>), KeyText))} })

RECURSIVE ParsePartsTail(_, _, _)
\* the rest of a parts array after one element: "," part ... "]"
ParsePartsTail(s, at, acc) ==
    Only({ Only({ IF close # 0 THEN [pos |-> close, val |-> acc]
                  ELSE Only({ IF r.pos = 0 THEN Fail
                              ELSE ParsePartsTail(s, r.pos, Append(acc, r.val)) :
                           r \in {ParsePart(s, Lit(s, i, <<",">>))} }) :
               close \in {Lit(s, i, <<"]">>)} }) :
        i \in {at} })

\* [ part, ... ]
ParseParts(s, at) ==
    Only({ Only({ IF open = 0 THEN Fail
                  ELSE IF close # 0 THEN [pos |-> close, val |-> <<>>]
                  ELSE Only({ IF r.pos = 0 THEN Fail
                              ELSE ParsePartsTail(s, r.pos, <<r.val>>) :
                           r \in {ParsePart(s, open)} }) :
               close \in {Lit(s, open, <<"]">>)} }) :
        open \in {Lit(s, at, <<"[">>)} })

\* the optional member "role": <string>, at position open of a content:
\* the role and the position of the member that follows
ParseRole(s, open) ==
    Only({ IF rk = 0 THEN [pos |-> open, val |-> <<>>]
           ELSE Only({ [pos |-> Lit(s, rv.pos, <<",">>), val |-> <<rv.val>>] :
                    rv \in {ParseStr(s, rk)} }) :
        rk \in {ParseKey(s, open, KeyRole)} })

\* {"role": <string>, "parts": [...]} with the role optional
ParseContent(s, at) ==
    Only({ Only({ Only({ Only({ IF e = 0 THEN Fail
                                ELSE [pos |-> e,
                                      val |-> [role |-> role.val, parts |-> ps.val]] :
                             e \in {Lit(s, ps.pos, <<"}">>)} }) :
                      ps \in {ParseParts(s, ParseKey(s, role.pos, KeyParts))} }) :
               role \in {ParseRole(s, open)} }) :
        open \in {Lit(s, at, <<"{">>)} })

\* {"content": {...}}
ParseCandidate(s, at) ==
    Only({ Only({ IF e = 0 THEN Fail ELSE [pos |-> e, val |-> [content |-> r.val]] :
               e \in {Lit(s, r.pos, <<"}">>)} }) :
        r \in {ParseContent(s, ParseKey(s, Lit(s, at, <<"{">>), KeyContent))} })

RECURSIVE ParseCandidatesTail(_, _, _)
\* the rest of a candidates array after one element
ParseCandidatesTail(s, at, acc) ==
    Only({ Only({ IF close # 0 THEN [pos |-> close, val |-> acc]
                  ELSE Only({ IF r.pos = 0 THEN Fail
                              ELSE ParseCandidatesTail(s, r.pos, Append(acc, r.val)) :
                           r \in {ParseCandidate(s, Lit(s, i, <<",">>))} }) :
               close \in {Lit(s, i, <<"]">>)} }) :
        i \in {at} })

\* [ candidate, ... ]
ParseCandidates(s, at) ==
    Only({ Only({ IF open = 0 THEN Fail
                  ELSE IF close # 0 THEN [pos |-> close, val |-> <<>>]
                  ELSE Only({ IF r.pos = 0 THEN Fail
                              ELSE ParseCandidatesTail(s, r.pos, <<r.val>>) :
                           r \in {ParseCandidate(s, open)} }) :
               close \in {Lit(s, open, <<"]">>)} }) :
        open \in {Lit(s, at, <<"[">>)} })

\* the whole text is one {"candidates": [...]} object; trailing characters
\* other than whitespace are an error
FromStr(text) ==
    Only({ Only({ Only({ IF e # 0 /\ SkipWs(s, e) = Len(s) + 1
                         THEN [ok |-> TRUE, val |-> Resp(r.val)]
                         ELSE [ok |-> FALSE, val |-> Resp(<<>>)] :
                      e \in {Lit(s, r.pos, <<"}">>)} }) :
               r \in {ParseCandidates(s, ParseKey(s, Lit(s, 1, <<"{">>), KeyCandidates))} }) :
        s \in {text} })

-----------------------------------------------------------------------------
(* The iterator chain of call_api that extracts a chunk's text *)

\* a filter that keeps every candidate that has a role
FilterAnyRole(cands) ==
    SelectSeq(cands, LAMBDA c : c.content.role # <<>>)

\* .filter(|candidate| candidate.content.role.as_deref() == Some("model"))
FilterModel(cands) ==
    SelectSeq(cands, LAMBDA c : c.content.role = <<RoleModel>>)

RECURSIVE FlatMapParts(_)
\* .flat_map(|candidate| &candidate.content.parts)
FlatMapParts(cands) ==
    IF cands = <<>> THEN <<>>
    ELSE Head(cands).content.parts \o FlatMapParts(Tail(cands))

\* .map(|part| &part.text)
MapText(parts) == [k \in 1..Len(parts) |-> parts[k].text]

RECURSIVE FoldPushStr(_, _)
\* .fold(String::new(), |mut acc, text| { acc.push_str(text); acc })
FoldPushStr(acc, texts) ==
    IF texts = <<>> THEN acc
    ELSE FoldPushStr(acc \o Head(texts), Tail(texts))

part_text(gemini_response) ==
    FoldPushStr(<<>>, MapText(FlatMapParts(FilterModel(gemini_response.candidates))))

-----------------------------------------------------------------------------
(* The identity-only methods *)

GoogleModels == {"GeminiPro", "GeminiProVertex"}

as_str(m) == "gemini-pro"

\* another token ceiling than the one get_rate_limit multiplies with
default_max_tokens_other(m) == 8192

default_max_tokens(m) == 32000

\* the endpoint constants are named, their values are not needed
get_endpoint(m) ==
    IF m = "GeminiPro" THEN "GOOGLE_GEMINI_API_URL" ELSE "GOOGLE_VERTEX_API_URL"

get_rate_limit(m) == [tpm |-> 60 * 32000, rpm |-> 60]

-----------------------------------------------------------------------------
(* The vendor and the network *)

\* every sequence over S of length at most n
SeqsUpTo(S, n) == UNION {[1..k -> S] : k \in 0..n}

Roles == {<<>>, <<RoleModel>>, <<RoleUser>>}
PartLists == {<<Part(<<"a">>)>>, <<Part(<<"b">>), Part(<<"a">>)>>}
Candidates == {Candidate(r, ps) : r \in Roles, ps \in PartLists}
Units == {Resp(cs) : cs \in SeqsUpTo(Candidates, MaxCands)}

Quoted(t) == <<Q>> \o t \o <<Q>>

RECURSIVE JoinComma(_)
JoinComma(ss) ==
    IF ss = <<>> THEN <<>>
    ELSE IF Len(ss) = 1 THEN Head(ss)
    ELSE Head(ss) \o <<",">> \o JoinComma(Tail(ss))

SerPart(p) == <<"{">> \o Quoted(KeyText) \o <<":">> \o Quoted(p.text) \o <<"}">>

SerContent(c) ==
    <<"{">>
    \o (IF c.role = <<>> THEN <<>>
        ELSE Quoted(KeyRole) \o <<":">> \o Quoted(c.role[1]) \o <<",">>)
    \o Quoted(KeyParts) \o <<":", "[">>
    \o JoinComma([k \in 1..Len(c.parts) |-> SerPart(c.parts[k])])
    \o <<"]", "}">>

SerCandidate(c) ==
    <<"{">> \o Quoted(KeyContent) \o <<":">> \o SerContent(c.content) \o <<"}">>

\* the compact JSON text of a response object
Serialize(u) ==
    <<"{">> \o Quoted(KeyCandidates) \o <<":", "[">>
    \o JoinComma([k \in 1..Len(u.candidates) |-> SerCandidate(u.candidates[k])])
    \o <<"]", "}">>

EventEnd == <<"\r", "\n", "\r", "\n">>

\* the vendor's framings of one object: the bare JSON text, a data line,
\* a data line with the blank line that ends a server-sent event
Framings == {"json", "data", "event"}

Frame(f, js) ==
    IF f = "json" THEN js
    ELSE IF f = "data" THEN DataPrefix \o js
    ELSE DataPrefix \o js \o EventEnd

\* a network read that holds exactly one framed object
WholeReads ==
    {[bytes |-> Frame(f, Serialize(u)), kind |-> "whole", unit |-> u] :
        u \in Units, f \in Framings}

\* the objects the network is let to split
SplitUnits ==
    {u \in Units : Len(u.candidates) = 1 /\ u.candidates[1].content.role = <<RoleModel>>}

\* the first read of a framed object that the network split in two: a
\* proper, non-empty prefix that ends inside the JSON object
FragmentReads ==
    UNION {
        {[bytes |-> SubSeq(Frame(f, Serialize(u)), 1, k),
          kind |-> "fragment", unit |-> u] :
            k \in 1..(Len(Frame(f, Serialize(u))) - 1)} :
        u \in SplitUnits, f \in {"json", "data"}}

CorruptUnit == Resp(<<Candidate(<<RoleModel>>, <<Part(<<"a">>)>>)>>)

\* reads that hold no decodable object: a byte that is no UTF-8 before or
\* after an object, an object cut off by the vendor, the framing alone,
\* a non-JSON sentinel, and two events in one read
CorruptReads ==
    {[bytes |-> b, kind |-> "corrupt", unit |-> CorruptUnit] : b \in
        { Frame("data", Serialize(CorruptUnit)) \o <<InvalidByte>>,
          <<InvalidByte>> \o Serialize(CorruptUnit),
          DataPrefix,
          DataPrefix \o <<"[", "D", "O", "N", "E", "]">>,
          Frame("event", Serialize(CorruptUnit))
              \o Frame("event", Serialize(CorruptUnit)) }}

Reads == WholeReads \cup FragmentReads \cup CorruptReads

Statuses == {200, 299, 300, 429, 500}

\* the bodies of an error response
ErrorBodies == {<<>>, <<"r", "a", "t", "e">>}

RECURSIVE ModelText(_)
\* the text a response object carries for the caller: the parts, in order,
\* of the candidates, in order, whose role is "model"
ModelText(cands) ==
    IF cands = <<>> THEN <<>>
    ELSE (IF Head(cands).content.role = <<RoleModel>>
          THEN Flatten([k \in 1..Len(Head(cands).content.parts) |->
                           Head(cands).content.parts[k].text])
          ELSE <<>>)
         \o ModelText(Tail(cands))

HasModel(u) ==
    \E k \in 1..Len(u.candidates) : u.candidates[k].content.role = <<RoleModel>>

HasOther(u) ==
    \E k \in 1..Len(u.candidates) : u.candidates[k].content.role # <<RoleModel>>

\* n: reads delivered; expected: the model text of the objects delivered
\* whole; anyModel, anyOther: a delivered object had a candidate of role
\* "model", of another or no role; failedAt: the first read that held no
\* whole object; lastKind: the kind of the last read; transport: a
\* transport failure happened; ended: the stream ended; body: the text of
\* an error response, <<b>> once read
NoWire == [n |-> 0, expected |-> <<>>, anyModel |-> FALSE, anyOther |-> FALSE,
           failedAt |-> 0, lastKind |-> "none", transport |-> FALSE,
           ended |-> FALSE, body |-> <<>>]

\* the wire after one more read r
Delivered(w, r) ==
    [w EXCEPT !.n = @ + 1,
              !.lastKind = r.kind,
              !.expected = IF r.kind = "whole" THEN @ \o ModelText(r.unit.candidates) ELSE @,
              !.anyModel = IF r.kind = "whole" THEN @ \/ HasModel(r.unit) ELSE @,
              !.anyOther = IF r.kind = "whole" THEN @ \/ HasOther(r.unit) ELSE @,
              !.failedAt = IF r.kind # "whole" /\ @ = 0 THEN w.n + 1 ELSE @]

-----------------------------------------------------------------------------
(* call_api, one operator per step; c is the invocation, d its debug flag *)

Ok(t) == [kind |-> "Ok", text |-> t]
ErrTransport == [kind |-> "Err", err |-> "transport"]
ErrUtf8 == [kind |-> "Err", err |-> "utf8"]
ErrJson == [kind |-> "Err", err |-> "json"]
ErrStatus(s, b) == [kind |-> "Err", err |-> "status", status |-> s, body |-> b]

\* StatusCode::is_success
is_success(s) == 200 <= s /\ s <= 299

\* an accumulator that outlives the invocation
KeepStreamedResponse(old) == old

\* let mut streamed_response = String::new();
NewStreamedResponse(old) == <<>>

Idle == [pc |-> "idle", url |-> "", status |-> 0, streamed_response |-> <<>>,
         result |-> None, logged |-> 0]

\* client.post(model_url)...send().await? failed
SendFailed(c, m) ==
    [pc |-> "done", url |-> get_endpoint(m), status |-> 0,
     streamed_response |-> <<>>,
     result |-> ErrTransport, logged |-> 0]

\* the response arrived with status s: the branch on is_success
SendResponded(c, m, s) ==
    IF is_success(s)
    THEN [pc |-> "streaming", url |-> get_endpoint(m), status |-> s,
          streamed_response |-> NewStreamedResponse(c.streamed_response),
          result |-> None, logged |-> 0]
    ELSE [pc |-> "errbody", url |-> get_endpoint(m), status |-> s,
          streamed_response |-> <<>>,
          result |-> None, logged |-> 0]

\* stream.next() gave Some(Err(_)): chunk? returns the error
ChunkFailed(c) == [c EXCEPT !.pc = "done", !.result = ErrTransport]

\* the prefix removal on the decoded chunk
StripFraming(chunk_str) ==
    IF StartsWith(chunk_str, DataPrefix)
    THEN SliceFrom(chunk_str, 6)
    ELSE chunk_str

\* the debug log of one chunk; the log holds how many chunks were written
DebugLog(c, d) == IF d THEN c.logged + 1 ELSE c.logged

\* from the bytes of a chunk to its part_text, or to the error of the
\* conversion that failed
Decode(chunk) ==
    Only({ IF ~utf.ok THEN [err |-> "utf8", part_text |-> <<>>]
           ELSE Only({ IF ~parsed.ok THEN [err |-> "json", part_text |-> <<>>]
                       ELSE [err |-> "", part_text |-> part_text(parsed.val)] :
                    parsed \in {FromStr(StripFraming(utf.val))} }) :
        utf \in {FromUtf8(chunk)} })

\* Decode of every read the network can deliver, computed once
Decoded == [chunk \in {r.bytes : r \in Reads} |-> Decode(chunk)]

\* a loop body that puts the text of a chunk before the text it has
ChunkReceivedPrepending(c, d, chunk) ==
    LET dec == Decoded[chunk]
    IN IF dec.err = "utf8" THEN [c EXCEPT !.pc = "done", !.result = ErrUtf8]
       ELSE IF dec.err = "json" THEN [c EXCEPT !.pc = "done", !.result = ErrJson]
       ELSE [c EXCEPT !.streamed_response = dec.part_text \o @,
                      !.logged = DebugLog(c, d)]

\* a loop body that skips a chunk it cannot decode
ChunkReceivedSkipping(c, d, chunk) ==
    LET dec == Decoded[chunk]
    IN IF dec.err # "" THEN c
       ELSE [c EXCEPT !.streamed_response = @ \o dec.part_text,
                      !.logged = DebugLog(c, d)]

\* a loop body whose debug output goes to the accumulated text
ChunkReceivedLeakingDebug(c, d, chunk) ==
    LET dec == Decoded[chunk]
    IN IF dec.err = "utf8" THEN [c EXCEPT !.pc = "done", !.result = ErrUtf8]
       ELSE IF dec.err = "json" THEN [c EXCEPT !.pc = "done", !.result = ErrJson]
       ELSE [c EXCEPT !.streamed_response =
                          IF d THEN @ \o dec.part_text \o chunk
                          ELSE @ \o dec.part_text,
                      !.logged = DebugLog(c, d)]

\* stream.next() gave Some(Ok(chunk)): one pass through the loop body
ChunkReceived(c, d, chunk) ==
    LET dec == Decoded[chunk]
    IN IF dec.err = "utf8" THEN [c EXCEPT !.pc = "done", !.result = ErrUtf8]
       ELSE IF dec.err = "json" THEN [c EXCEPT !.pc = "done", !.result = ErrJson]
       ELSE [c EXCEPT !.streamed_response = @ \o dec.part_text,
                      !.logged = DebugLog(c, d)]

\* stream.next() gave None: Ok(streamed_response)
StreamEnded(c) == [c EXCEPT !.pc = "done", !.result = Ok(c.streamed_response)]

\* response.text().await? failed
ErrorTextFailed(c) == [c EXCEPT !.pc = "done", !.result = ErrTransport]

\* an error that leaves the body text out
ErrorTextReadNoBody(c, response_txt) ==
    [c EXCEPT !.pc = "done", !.result = ErrStatus(c.status, <<>>)]

\* Err(anyhow!("[allms][Google][{}] Response body: {:#?}", status, text))
ErrorTextRead(c, response_txt) ==
    [c EXCEPT !.pc = "done", !.result = ErrStatus(c.status, response_txt)]

\* Ok(response_text.to_string())
get_data(response_text, function_call) == Ok(response_text)

-----------------------------------------------------------------------------
(* get_body *)

\* serde_json::Value, as far as schemas need it: null, a string, an object
\* given as the sequence of its <<key, value>> members
JNull == [t |-> "null"]
JString(x) == [t |-> "string", s |-> x]
JObject(ms) == [t |-> "object", members |-> ms]

KeyType == <<"t", "y", "p", "e">>

RECURSIVE to_string(_)
\* serde_json::to_string(json_schema).unwrap_or_default()
to_string(v) ==
    IF v.t = "null" THEN <<"n", "u", "l", "l">>
    ELSE IF v.t = "string" THEN Quoted(v.s)
    ELSE <<"{">>
         \o JoinComma([k \in 1..Len(v.members) |->
                Quoted(v.members[k][1]) \o <<":">> \o to_string(v.members[k][2])])
         \o <<"}">>

\* LLMModel::get_base_instructions(Some(function_call)): one fixed text for
\* function calling and one for plain JSON answers
get_base_instructions(function_call) ==
    IF function_call THEN <<"f", "n">> ELSE <<"j", "s", "o", "n">>

SchemaLabel == <<"'", "O", "u", "t", "p", "u", "t", " ", "J", "s", "o", "n", " ",
                 "s", "c", "h", "e", "m", "a", "'", ":", " ">>

\* a body with the schema entry before the base instructions
get_body_schema_first(m, instructions, json_schema, function_call, max_tokens, temperature) ==
    [contents |->
        [role |-> RoleUser,
         parts |-> <<[text |-> SchemaLabel \o to_string(json_schema)],
                     [text |-> get_base_instructions(function_call)],
                     [text |-> instructions]>>],
     generationConfig |-> [temperature |-> temperature]]

\* a body that passes max_tokens on to the vendor
get_body_with_max_tokens(m, instructions, json_schema, function_call, max_tokens, temperature) ==
    [contents |->
        [role |-> RoleUser,
         parts |-> <<[text |-> get_base_instructions(function_call)],
                     [text |-> SchemaLabel \o to_string(json_schema)],
                     [text |-> instructions]>>],
     generationConfig |-> [temperature |-> temperature,
                           maxOutputTokens |-> max_tokens]]

get_body(m, instructions, json_schema, function_call, max_tokens, temperature) ==
    LET base_instructions_json == [text |-> get_base_instructions(function_call)]
        schema_string == to_string(json_schema)
        output_instructions_json == [text |-> SchemaLabel \o schema_string]
        user_instructions_json == [text |-> instructions]
        contents == [role |-> RoleUser,
                     parts |-> <<base_instructions_json,
                                 output_instructions_json,
                                 user_instructions_json>>]
        generation_config == [temperature |-> temperature]
    IN [contents |-> contents, generationConfig |-> generation_config]

NoReq == [kind |-> "None"]

Instructions == {<<>>, <<"h", "i">>, <<"j", "s", "o", "n">>}
Schemas == {JNull, JObject(<<>>), JObject(<< <<KeyType, JString(<<"s">>)>> >>)}
MaxTokensSet == {0, 1024, 32000}
Temperatures == {0, 70}

Requests ==
    [instructions : Instructions, json_schema : Schemas, function_call : BOOLEAN,
     max_tokens : MaxTokensSet, temperature : Temperatures]

-----------------------------------------------------------------------------
(* Actions of call_api *)

InitCall ==
    /\ debug \in BOOLEAN
    /\ attempt = 0
    /\ call = Idle
    /\ twin = Idle
    /\ wire = NoWire
    /\ prevLost = FALSE
    /\ data = None

\* call_api is entered: the request is sent and fails in transport
Send_Fail ==
    /\ call.pc \in {"idle", "done"}
    /\ attempt < MaxAttempts
    /\ attempt' = attempt + 1
    /\ call' = SendFailed(call, self)
    /\ twin' = SendFailed(twin, self)
    /\ wire' = [NoWire EXCEPT !.transport = TRUE]
    /\ prevLost' = (call.pc = "done" /\ call.result = ErrTransport
                     /\ call.streamed_response # <<>>)
    /\ data' = None
    /\ UNCHANGED <<self, debug>>
    /\ UNCHANGED pureVars

\* call_api is entered: the request is sent and a response arrives
Send_Response ==
    /\ call.pc \in {"idle", "done"}
    /\ attempt < MaxAttempts
    /\ \E s \in Statuses :
        /\ call' = SendResponded(call, self, s)
        /\ twin' = SendResponded(twin, self, s)
    /\ attempt' = attempt + 1
    /\ wire' = NoWire
    /\ prevLost' = (call.pc = "done" /\ call.result = ErrTransport
                     /\ call.streamed_response # <<>>)
    /\ data' = None
    /\ UNCHANGED <<self, debug>>
    /\ UNCHANGED pureVars

\* the stream yields a chunk
Stream_Chunk ==
    /\ call.pc = "streaming"
    /\ wire.n < MaxChunks
    /\ \E r \in Reads :
        /\ call' = ChunkReceived(call, debug, r.bytes)
        /\ twin' = ChunkReceived(twin, ~debug, r.bytes)
        /\ wire' = Delivered(wire, r)
    /\ UNCHANGED <<self, debug, attempt, prevLost, data>>
    /\ UNCHANGED pureVars

\* the stream yields an error (connection lost, timeout)
Stream_Error ==
    /\ call.pc = "streaming"
    /\ call' = ChunkFailed(call)
    /\ twin' = ChunkFailed(twin)
    /\ wire' = [wire EXCEPT !.transport = TRUE]
    /\ UNCHANGED <<self, debug, attempt, prevLost, data>>
    /\ UNCHANGED pureVars

\* the stream ends
Stream_End ==
    /\ call.pc = "streaming"
    /\ call' = StreamEnded(call)
    /\ twin' = StreamEnded(twin)
    /\ wire' = [wire EXCEPT !.ended = TRUE]
    /\ UNCHANGED <<self, debug, attempt, prevLost, data>>
    /\ UNCHANGED pureVars

\* the body of an error response is read
Error_Text ==
    /\ call.pc = "errbody"
    /\ \E b \in ErrorBodies :
        /\ call' = ErrorTextRead(call, b)
        /\ twin' = ErrorTextRead(twin, b)
        /\ wire' = [wire EXCEPT !.body = <<b>>]
    /\ UNCHANGED <<self, debug, attempt, prevLost, data>>
    /\ UNCHANGED pureVars

\* reading the body of an error response fails
Error_TextFail ==
    /\ call.pc = "errbody"
    /\ call' = ErrorTextFailed(call)
    /\ twin' = ErrorTextFailed(twin)
    /\ wire' = [wire EXCEPT !.transport = TRUE]
    /\ UNCHANGED <<self, debug, attempt, prevLost, data>>
    /\ UNCHANGED pureVars

\* the caller hands call_api's Ok text to get_data
GetData ==
    /\ call.pc = "done"
    /\ call.result.kind = "Ok"
    /\ data = None
    /\ \E fc \in BOOLEAN : data' = get_data(call.result.text, fc)
    /\ UNCHANGED <<self, debug, attempt, call, twin, wire, prevLost>>
    /\ UNCHANGED pureVars

Init ==
    /\ self \in GoogleModels
    /\ InitCall
    /\ req = NoReq /\ alt = NoReq /\ body = None /\ bodyAlt = None /\ rate = None

Next ==
    \/ Send_Fail
    \/ Send_Response
    \/ Stream_Chunk
    \/ Stream_Error
    \/ Stream_End
    \/ Error_Text
    \/ Error_TextFail
    \/ GetData

Spec == Init /\ [][Next]_vars

-----------------------------------------------------------------------------
(* The pure methods: get_body, get_rate_limit *)

InitPure ==
    /\ self \in GoogleModels
    /\ req \in Requests
    /\ alt = NoReq
    /\ body = None
    /\ bodyAlt = None
    /\ rate = None
    /\ debug = FALSE /\ attempt = 0 /\ call = Idle /\ twin = Idle
    /\ wire = NoWire /\ prevLost = FALSE /\ data = None

\* get_body on the request
GetBody ==
    /\ body = None
    /\ body' = get_body(self, req.instructions, req.json_schema,
                        req.function_call, req.max_tokens, req.temperature)
    /\ UNCHANGED <<self, req, alt, bodyAlt, rate>>
    /\ UNCHANGED callVars

\* get_body on the same instructions, schema, flag and temperature, by any
\* identity and with any max_tokens
GetBodyAlt ==
    /\ bodyAlt = None
    /\ \E m \in GoogleModels, mt \in MaxTokensSet :
        /\ alt' = [self |-> m, max_tokens |-> mt]
        /\ bodyAlt' = get_body(m, req.instructions, req.json_schema,
                               req.function_call, mt, req.temperature)
    /\ UNCHANGED <<self, req, body, rate>>
    /\ UNCHANGED callVars

GetRateLimit ==
    /\ rate = None
    /\ rate' = get_rate_limit(self)
    /\ UNCHANGED <<self, req, alt, body, bodyAlt>>
    /\ UNCHANGED callVars

NextPure ==
    \/ GetBody
    \/ GetBodyAlt
    \/ GetRateLimit

SpecPure == InitPure /\ [][NextPure]_vars

-----------------------------------------------------------------------------
(* Properties of call_api, checked under Spec *)

\* a response arrived and its status is no success status
ErrorStatus == call.status # 0 /\ call.status \notin 200..299

\* C1: after a success status and a stream of reads that each hold one whole
\* framed object, call_api returns Ok with the text of the parts of the
\* candidates of role "model", in read order, candidate order, part order;
\* candidates of another or of no role add nothing.
C1_ConcatenationInArrivalOrder ==
    (/\ call.pc = "done"
     /\ call.status \in 200..299
     /\ wire.ended
     /\ wire.failedAt = 0)
        => call.result = Ok(wire.expected)

\* C1 witness: two reads arrived, with candidates of role "model" and of
\* other roles, and the call returned at least three characters.
C1_Witness ==
    /\ call.pc = "done"
    /\ wire.ended
    /\ wire.n = 2
    /\ wire.anyModel
    /\ wire.anyOther
    /\ call.result.kind = "Ok"
    /\ Len(call.result.text) >= 3

C3_DecodeFailureAborts ==
    wire.failedAt # 0 =>
        /\ call.pc = "done"
        /\ call.result.kind = "Err"
        /\ call.result.err \in {"utf8", "json"}
        /\ wire.n = wire.failedAt

\* C3 witness: the second read was corrupt, after a first read that had
\* already added text.
C3_Witness ==
    /\ wire.failedAt = 2
    /\ wire.lastKind = "corrupt"
    /\ call.streamed_response # <<>>
    /\ call.pc = "done"

\* C4 as claimed: after the first read of a framed object that the network
\* split in two, the call is still running with the text it had (it waits
\* for the rest of the object), as it would be had the object not arrived yet.
C4_SplitObjectIsBuffered ==
    wire.lastKind = "fragment" =>
        /\ call.pc = "streaming"
        /\ call.streamed_response = wire.expected

\* C6: a transport failure of the stream ends the call with an error that
\* holds no text, also when text had been accumulated; every invocation
\* starts with an empty accumulator, and an Ok result holds the text of this
\* invocation's reads only.
C6_PartialTextIsDiscarded ==
    /\ wire.transport => (call.pc = "done" /\ call.result = ErrTransport)
    /\ (call.pc = "streaming" /\ wire.n = 0) => call.streamed_response = <<>>
    /\ (call.pc = "done" /\ call.result.kind = "Ok")
            => call.result.text = wire.expected

\* C6 witness: the previous invocation lost its stream while holding text,
\* and this invocation returned text.
C6_Witness ==
    /\ attempt = 2
    /\ prevLost
    /\ call.pc = "done"
    /\ call.result.kind = "Ok"
    /\ call.result.text # <<>>

\* C7: the invocation and its twin, which differ in the debug flag only and
\* see the same status, reads and failures, are at the same place with the
\* same accumulated text and the same result.
C7_DebugIsSideChannel ==
    /\ call.pc = twin.pc
    /\ call.status = twin.status
    /\ call.streamed_response = twin.streamed_response
    /\ call.result = twin.result

\* C7 witness: the debugging invocation logged two chunks (its twin none)
\* and returned text.
C7_Witness ==
    /\ debug
    /\ call.logged = 2
    /\ twin.logged = 0
    /\ call.pc = "done"
    /\ call.result.kind = "Ok"
    /\ call.result.text # <<>>

\* C9: when the stream of a success response ends after no read at all, or
\* after reads whose objects hold no candidate of role "model", call_api
\* returns Ok with the empty text; get_data returns the text it is given.
C9_EmptyTextIsOk ==
    /\ (/\ call.pc = "done"
        /\ wire.ended
        /\ wire.failedAt = 0
        /\ ~wire.anyModel)
            => call.result = Ok(<<>>)
    /\ data # None => data = call.result

\* C9 witness: reads arrived, none with a candidate of role "model", and
\* get_data returned the empty text.
C9_Witness ==
    /\ wire.n > 0
    /\ wire.anyOther
    /\ ~wire.anyModel
    /\ data = Ok(<<>>)

-----------------------------------------------------------------------------
(* Properties of the pure methods, checked under SpecPure *)

\* C5: the body holds exactly three parts, each a separate text entry: the
\* base instructions, the labelled serialised schema, the caller's
\* instructions, in this order.
C5_ThreePartsInOrder ==
    body # None =>
        /\ Len(body.contents.parts) = 3
        /\ \A k \in 1..3 : DOMAIN body.contents.parts[k] = {"text"}
        /\ body.contents.parts[1].text = get_base_instructions(req.function_call)
        /\ body.contents.parts[2].text = SchemaLabel \o to_string(req.json_schema)
        /\ body.contents.parts[3].text = req.instructions

\* C5 witness: a body built for instructions that differ from the base
\* instructions and from the schema entry.
C5_Witness ==
    /\ body # None
    /\ req.instructions = <<"h", "i">>
    /\ req.json_schema # JNull
    /\ req.function_call

\* C8: requests-per-minute and tokens-per-minute are positive, and
\* tokens-per-minute is requests-per-minute times default_max_tokens.
C8_RateLimitPositive ==
    rate # None =>
        /\ rate.rpm > 0
        /\ rate.tpm > 0
        /\ rate.tpm = rate.rpm * default_max_tokens(self)

\* C8 witness: the rate limit of GeminiProVertex was read.
C8_Witness ==
    /\ rate # None
    /\ self = "GeminiProVertex"

\* C10: two bodies built from the same instructions, schema, flag and
\* temperature are equal whatever identity builds them and whatever
\* max_tokens is, and the body has no field but contents (role, parts) and
\* generationConfig (temperature).
C10_BodyIgnoresMaxTokensAndIdentity ==
    /\ (body # None /\ bodyAlt # None) => body = bodyAlt
    /\ body # None =>
        /\ DOMAIN body = {"contents", "generationConfig"}
        /\ DOMAIN body.contents = {"role", "parts"}
        /\ DOMAIN body.generationConfig = {"temperature"}

\* C10 witness: both bodies were built, by different identities and with
\* different max_tokens.
C10_Witness ==
    /\ body # None
    /\ bodyAlt # None
    /\ alt.self # self
    /\ alt.max_tokens # req.max_tokens

=============================================================================
